---- MODULE Spec2Model ----
(***************************************************************************)
(* A model of src/sudoku.py: the candidate grid, the deduction rule        *)
(* (Focus.calculate_options), the propagator (Sudoku.propagate_constraints *)
(* and Sudoku.simplify), the search (Sudoku.solve) and top-level solve.    *)
(*                                                                         *)
(* Grids are Python lists of lists of sets, shared by reference: the model *)
(* keeps them in a heap (a function from object identities to grids), so   *)
(* that set_choice, which assigns into an existing grid, is seen by every  *)
(* holder of that grid.  Rows and columns are 0-based as in the source.    *)
(***************************************************************************)
EXTENDS Integers, Sequences, FiniteSets, TLC

\* Configuration._size: the box size k (math.isqrt(len(grid))).
size == 2

\* Configuration._cell_count (N = k*k).
cell_count == size * size

\* Configuration.cell_range(): range(N).
cell_range == 0 .. (cell_count - 1)

\* The number of cells of GivenCells that a puzzle text may fill with a digit.
MaxGivens == 6

\* The cells a puzzle text may fill, in the order the bound admits them.
GivenCells ==
    << <<0, 1>>, <<0, 2>>, <<0, 3>>, <<2, 0>>, <<3, 2>>, <<1, 1>>, <<2, 3>> >>

\* The largest box size k of a Configuration whose geometry is computed.
MaxSize == 3

Values == 1 .. cell_count

----------------------------------------------------------------------------
(* Text: a puzzle is a sequence of lines, a line a sequence of characters. *)

\* as_1_char's alphabet "0123456789ABCDEFGHIJKLMNOPQRSTUVWXYZ".
alphabet ==
    << "0", "1", "2", "3", "4", "5", "6", "7", "8", "9", "A", "B", "C", "D",
       "E", "F", "G", "H", "I", "J", "K", "L", "M", "N", "O", "P", "Q", "R",
       "S", "T", "U", "V", "W", "X", "Y", "Z" >>

\* as_1_char(x): alphabet[x].
as_1_char(x) == alphabet[x + 1]

\* int(c) for a decimal digit c.
int(c) == CHOOSE d \in 0 .. 9 : alphabet[d + 1] = c

\* Puzzle.__init__: one row per line, {int(c)} for a digit and
\* set(range(1, len(line)+1)) for '_'.
Puzzle_grid(text) ==
    [row \in 0 .. (Len(text) - 1) |->
        [col \in 0 .. (Len(text[row + 1]) - 1) |->
            IF text[row + 1][col + 1] # "_"
            THEN {int(text[row + 1][col + 1])}
            ELSE 1 .. Len(text[row + 1])]]

\* "".join(as_1_char(next(iter(cell))) if len(cell) == 1 else "_" for cell in row)
row_string(g, row) ==
    [i \in 1 .. cell_count |->
        IF Cardinality(g[row][i - 1]) = 1
        THEN as_1_char(CHOOSE x \in g[row][i - 1] : TRUE)
        ELSE "_"]

RECURSIVE join_rows(_, _)
\* "\n".join(rows) from row n on.
join_rows(g, n) ==
    IF n = cell_count - 1 THEN row_string(g, n)
    ELSE row_string(g, n) \o << "\n" >> \o join_rows(g, n + 1)

\* Sudoku.as_puzzle_string.
as_puzzle_string(g) == join_rows(g, 0)

NoSolution == << "No solution" >>

----------------------------------------------------------------------------
(* Geometry: Configuration.other_*_coords.                                 *)

\* Configuration.other_row_coords for a Configuration of size k: the
\* coordinates it yields, in order.
Configuration_other_row_coords(k, row, col) ==
    SelectSeq([i \in 1 .. (k * k) |-> <<row, i - 1>>], LAMBDA rc : rc[2] # col)

\* Configuration.other_col_coords for a Configuration of size k.
Configuration_other_col_coords(k, row, col) ==
    SelectSeq([i \in 1 .. (k * k) |-> <<i - 1, col>>], LAMBDA rc : rc[1] # row)

\* A reading of other_box_coords that leaves out a cell when its row and
\* its column both differ from the cell's own.
Configuration_other_box_coords_and(k, row, col) ==
    LET box_row == (row \div k) * k
        box_col == (col \div k) * k
    IN  SelectSeq([i \in 1 .. (k * k) |->
                     << box_row + ((i - 1) \div k), box_col + ((i - 1) % k) >>],
                  LAMBDA rc : rc[1] # row /\ rc[2] # col)

\* Configuration.other_box_coords for a Configuration of size k.
Configuration_other_box_coords(k, row, col) ==
    LET box_row == (row \div k) * k
        box_col == (col \div k) * k
    IN  SelectSeq([i \in 1 .. (k * k) |->
                     << box_row + ((i - 1) \div k), box_col + ((i - 1) % k) >>],
                  LAMBDA rc : rc[1] # row \/ rc[2] # col)

\* Focus.other_row_coords, other_col_coords, other_box_coords: those of the
\* Sudoku's Configuration.
other_row_coords(row, col) == Configuration_other_row_coords(size, row, col)

other_col_coords(row, col) == Configuration_other_col_coords(size, row, col)

other_box_coords(row, col) == Configuration_other_box_coords(size, row, col)

----------------------------------------------------------------------------
(* Deduction rule: Forcing and Focus.                                      *)

RECURSIVE peer_coords_upto(_)
\* The three peer groups of the first n cells (row-major).
peer_coords_upto(n) ==
    IF n = 0 THEN << >>
    ELSE Append(peer_coords_upto(n - 1),
                << other_row_coords((n - 1) \div cell_count, (n - 1) % cell_count),
                   other_col_coords((n - 1) \div cell_count, (n - 1) % cell_count),
                   other_box_coords((n - 1) \div cell_count, (n - 1) % cell_count) >>)

\* Focus.other_row_coords, other_col_coords and other_box_coords of every
\* cell, in the order value_groups takes them.
peer_coords == peer_coords_upto(cell_count * cell_count)

\* Focus.as_values: the candidate sets at the coordinates.
as_values(g, coords) == { g[coords[i][1]][coords[i][2]] : i \in DOMAIN coords }

\* Focus.value_groups: row, column, box, in that order.
value_groups(g, row, col) ==
    << as_values(g, peer_coords[row * cell_count + col + 1][1]),
       as_values(g, peer_coords[row * cell_count + col + 1][2]),
       as_values(g, peer_coords[row * cell_count + col + 1][3]) >>

\* Forcing.__init__: _forced is None.
Forcing_init == [is_none |-> TRUE, forced |-> {}]

\* A Forcing whose _forced is the set s.
Forcing_of(s) == [is_none |-> FALSE, forced |-> s]

\* A restrict_by_value_group that passes over a group with more than one
\* forced choice.
restrict_by_value_group_ambiguous(f, current, values) ==
    LET forced_choices == current \ UNION values
    IN  IF Cardinality(forced_choices) = 1
        THEN IF f.is_none THEN [is_none |-> FALSE, forced |-> forced_choices]
             ELSE IF f.forced # forced_choices THEN [is_none |-> FALSE, forced |-> {}]
             ELSE f
        ELSE f

\* Forcing.restrict_by_value_group: the Forcing after the call.
restrict_by_value_group(f, current, values) ==
    LET forced_choices == current \ UNION values
    IN  IF Cardinality(forced_choices) = 1
        THEN IF f.is_none THEN Forcing_of(forced_choices)
             ELSE IF f.forced # forced_choices THEN Forcing_of({})
             ELSE f
        ELSE IF Cardinality(forced_choices) > 1 THEN Forcing_of({})
        ELSE f

RECURSIVE forcing_after(_, _, _)
\* The first loop of calculate_options: the Forcing after the first n groups.
forcing_after(current, groups, n) ==
    IF n = 0 THEN Forcing_init
    ELSE restrict_by_value_group(forcing_after(current, groups, n - 1), current, groups[n])

\* A reading of the peers' sole candidates that finds none.
single_values_none(values) == {}

\* { next(iter(v)) for v in values if len(v) == 1 }
single_values(values) == { x \in Values : {x} \in values }

RECURSIVE eliminate(_, _, _)
\* The second loop of calculate_options from group n on.
eliminate(current, groups, n) ==
    IF n > 3 THEN current
    ELSE IF current = {} THEN current
    ELSE eliminate(current \ single_values(groups[n]), groups, n + 1)

\* A calculate_options that returns at the forced value, with no
\* elimination of the peers' sole candidates after it.
calculate_options_forced_only(g, row, col) ==
    LET groups == value_groups(g, row, col)
        forcing == forcing_after(g[row][col], groups, 3)
    IN  IF ~forcing.is_none THEN g[row][col] \cap forcing.forced
        ELSE eliminate(g[row][col], groups, 1)

\* Focus.calculate_options.
calculate_options(g, row, col) ==
    LET groups == value_groups(g, row, col)
        forcing == forcing_after(g[row][col], groups, 3)
        current == IF ~forcing.is_none
                   THEN g[row][col] \cap forcing.forced
                   ELSE g[row][col]
    IN  IF current = {} THEN current
        ELSE eliminate(current, groups, 1)

----------------------------------------------------------------------------
(* Sudoku.                                                                 *)

\* Sudoku.propagate_constraints: every cell from the receiver's grid.
propagate_constraints(g) ==
    [row \in cell_range |-> [col \in cell_range |-> calculate_options(g, row, col)]]

\* The identity of a newly allocated object of heap h.
fresh(h) == CHOOSE n \in 1 .. (Cardinality(DOMAIN h) + 1) : n \notin DOMAIN h

\* A propagate_constraints that writes the new cells into the receiver's
\* grid and returns the receiver.
Sudoku_propagate_constraints_in_place(h, id) ==
    [heap |-> [h EXCEPT ![id] = propagate_constraints(h[id])], id |-> id]

\* The call self.propagate_constraints() on object id of heap h: a new Sudoku
\* whose grid is a new list of lists, and the heap that holds it.
Sudoku_propagate_constraints(h, id) ==
    [heap |-> [i \in DOMAIN h \cup {fresh(h)} |->
                 IF i = fresh(h) THEN propagate_constraints(h[id]) ELSE h[i]],
     id |-> fresh(h)]

\* An is_valid that accepts every grid.
is_valid_always(g) == TRUE

\* Sudoku.is_valid.
is_valid(g) == \A row \in cell_range : \A col \in cell_range : g[row][col] # {}

\* A set_choice with row and column exchanged.
set_choice_transposed(g, row, col, value) == [g EXCEPT ![col][row] = {value}]

\* Sudoku.set_choice: the grid after the assignment.
set_choice(g, row, col, value) == [g EXCEPT ![row][col] = {value}]

None == << -1, -1 >>

RECURSIVE find_minimum_scan(_, _, _, _)
\* The scan of find_minimum_set from cell number n on (row-major).
find_minimum_scan(g, n, sofar, ij) ==
    IF n = cell_count * cell_count THEN ij
    ELSE LET r == n \div cell_count
             c == n % cell_count
             L == Cardinality(g[r][c])
         IN  IF 2 <= L /\ L < sofar
             THEN find_minimum_scan(g, n + 1, L, <<r, c>>)
             ELSE find_minimum_scan(g, n + 1, sofar, ij)

\* Sudoku.find_minimum_set: None or (i, j).
find_minimum_set(g) == find_minimum_scan(g, 0, cell_count, None)

----------------------------------------------------------------------------
(* The program: top-level solve(puzzle) and the generators it drives.      *)

VARIABLES
    puzzle,      \* the puzzle text given to solve
    heap,        \* the live grids (lists of lists) by identity; heap[1] is Puzzle._grid
    pc,          \* solve: "simplify" (list(S.simplify())), "solve", "done"
    sudoku,      \* the local `sudoku` of the running simplify generator (0: none)
    g,           \* its local `g`, between lines 133 and 134 (0: none)
    simplified,  \* simplified[0] (0: not yet)
    stack,       \* the activations of Sudoku.solve, innermost last
    emitted,     \* the Sudoku the search yielded to solve (0: none)
    result,      \* the value solve returns
    configuration,  \* Configuration._size of the Configuration in use
    focus,       \* the (row, col) whose peer coordinates are taken (<< >>: none)
    peers        \* the coordinates yielded so far, by group: "row", "col", "box"

\* The part of the state that the geometry calls work on.
geometry == << configuration, focus, peers >>

vars == << puzzle, heap, pc, sudoku, g, simplified, stack, emitted, result, geometry >>

\* The digit (0: blank) that assignment f gives cell (row, col).
given_at(f, row, col) ==
    IF \E i \in DOMAIN f : GivenCells[i] = <<row, col>>
    THEN f[CHOOSE i \in DOMAIN f : GivenCells[i] = <<row, col>>]
    ELSE 0

\* The digits of assignment f come in order of first use: a digit d > 1 is
\* given only after d - 1 was (the puzzles apart from a renaming of digits).
FirstUseInOrder(f) ==
    \A i \in DOMAIN f : f[i] <= 1 \/ \E j \in 1 .. (i - 1) : f[j] >= f[i] - 1

\* The well-formed puzzle texts of the model: N lines of N characters, a
\* digit of 1..N or '_' at each of the first MaxGivens cells of GivenCells,
\* '_' elsewhere, the digits in order of first use.
PuzzleTexts ==
    LET used == 1 .. (IF MaxGivens < Len(GivenCells) THEN MaxGivens ELSE Len(GivenCells))
    IN  { [r \in 1 .. cell_count |->
             [c \in 1 .. cell_count |->
                IF given_at(f, r - 1, c - 1) = 0 THEN "_"
                ELSE alphabet[given_at(f, r - 1, c - 1) + 1]]] :
          f \in { a \in [used -> 0 .. cell_count] : FirstUseInOrder(a) } }

\* An activation of Sudoku.solve on object self, which simplify is about to
\* work on.  Once a cell is selected, sg is the Sudoku simplify yielded, F
\* the content of its grid at the selection, (row, col) the cell, and L the
\* list of its candidates as far as the loop over it has come.
Frame(self, h) ==
    [self |-> self, pc |-> "simplify", sg |-> 0, F |-> h[self],
     row |-> -1, col |-> -1, L |-> << >>]

top == stack[Len(stack)]

WithTop(f) == [stack EXCEPT ![Len(stack)] = f]

\* The objects still referenced: the Puzzle's grid, simplified[0], the
\* locals of the running simplify, and self and sg of every activation.
Referenced(simplified_, sudoku_, g_, stack_) ==
    ({1, simplified_, sudoku_, g_}
        \cup { stack_[i].self : i \in DOMAIN stack_ }
        \cup { stack_[i].sg : i \in DOMAIN stack_ }) \ {0}

\* Heap h without the objects that nothing references any more.
Live(h, refs) == [i \in DOMAIN h \cap refs |-> h[i]]

Init ==
    /\ puzzle \in PuzzleTexts
    /\ heap = [i \in {1} |-> Puzzle_grid(puzzle)]
    /\ pc = "simplify"
    /\ sudoku = 1
    /\ g = 0
    /\ simplified = 0
    /\ stack = << >>
    /\ emitted = 0
    /\ result = << >>
    /\ configuration = size
    /\ focus = << >>
    /\ peers = << >>

\* A simplify generator is running: solve's own, or the innermost activation's.
Simplifying ==
    \/ pc = "simplify"
    \/ pc = "solve" /\ top.pc = "simplify"

\* simplify, lines 132-133: the grid is valid; g = sudoku.propagate_constraints().
Propagate ==
    /\ Simplifying
    /\ g = 0
    /\ is_valid(heap[sudoku])
    /\ LET r == Sudoku_propagate_constraints(heap, sudoku)
       IN  heap' = r.heap /\ g' = r.id
    /\ UNCHANGED << geometry, puzzle, pc, sudoku, simplified, stack, emitted, result >>

\* An Advance that drops g and keeps sudoku: the loop goes round on the
\* same grid.
Advance_stays ==
    /\ Simplifying
    /\ g # 0
    /\ heap[g] # heap[sudoku]
    /\ g' = 0
    /\ heap' = Live(heap, Referenced(simplified, sudoku, 0, stack))
    /\ UNCHANGED << geometry, puzzle, pc, sudoku, simplified, stack, emitted, result >>

\* simplify, lines 134 and 137: the grids differ; sudoku = g.
Advance ==
    /\ Simplifying
    /\ g # 0
    /\ heap[g] # heap[sudoku]
    /\ sudoku' = g
    /\ g' = 0
    /\ heap' = Live(heap, Referenced(simplified, g, 0, stack))
    /\ UNCHANGED << geometry, puzzle, pc, simplified, stack, emitted, result >>

\* simplify, lines 134-135, and solve, lines 262-264: S.simplify() yields
\* its fixpoint and the search starts on it.
TopFixpoint ==
    /\ pc = "simplify"
    /\ g # 0
    /\ heap[g] = heap[sudoku]
    /\ simplified' = sudoku
    /\ stack' = << Frame(sudoku, heap) >>
    /\ pc' = "solve"
    /\ g' = 0
    /\ heap' = Live(heap, Referenced(sudoku, sudoku, 0, << >>))
    /\ UNCHANGED << geometry, puzzle, sudoku, emitted, result >>

\* simplify, line 132, and solve, lines 262-266: S.simplify() ends without
\* a result.
TopContradiction ==
    /\ pc = "simplify"
    /\ g = 0
    /\ ~is_valid(heap[sudoku])
    /\ pc' = "done"
    /\ result' = NoSolution
    /\ UNCHANGED << geometry, puzzle, heap, sudoku, g, simplified, stack, emitted >>

\* simplify, lines 134-135, and Sudoku.solve, line 151: self.simplify() yields sg.
Fixpoint ==
    /\ pc = "solve" /\ top.pc = "simplify"
    /\ g # 0
    /\ heap[g] = heap[sudoku]
    /\ stack' = WithTop([top EXCEPT !.pc = "select", !.sg = sudoku])
    /\ sudoku' = 0
    /\ g' = 0
    /\ heap' = Live(heap, Referenced(simplified, sudoku, 0, stack))
    /\ UNCHANGED << geometry, puzzle, pc, simplified, emitted, result >>

\* The innermost activation of Sudoku.solve ends: its caller goes on with
\* its next choice, and solve (line 266) returns "No solution" when the
\* outermost one ends.
Return ==
    /\ stack' = SubSeq(stack, 1, Len(stack) - 1)
    /\ sudoku' = 0
    /\ heap' = Live(heap, Referenced(simplified, 0, 0, SubSeq(stack, 1, Len(stack) - 1)))
    /\ IF Len(stack) = 1
       THEN pc' = "done" /\ result' = NoSolution
       ELSE UNCHANGED << pc, result >>
    /\ UNCHANGED << geometry, puzzle, g, simplified, emitted >>

\* simplify, line 132, and Sudoku.solve, line 151: self.simplify() ends
\* without a result.
Contradiction ==
    /\ pc = "solve" /\ top.pc = "simplify"
    /\ g = 0
    /\ ~is_valid(heap[sudoku])
    /\ Return

\* A loop over L that does not advance: every candidate stays to be tried.
list_next_all(s, L) == s

\* L = list(s), whose order is the set's iteration order, which the language
\* leaves open: the elements that may follow the prefix L of the list.
list_next(s, L) == s \ { L[i] : i \in DOMAIN L }

\* Sudoku.solve, lines 152-154: a cell is selected and its candidates listed
\* (L is the part of the list that the loop has reached).
Select ==
    /\ pc = "solve" /\ top.pc = "select"
    /\ find_minimum_set(heap[top.sg]) # None
    /\ LET minimum == find_minimum_set(heap[top.sg])
       IN  stack' = WithTop([top EXCEPT !.pc = "branch", !.F = heap[top.sg],
                                        !.row = minimum[1], !.col = minimum[2],
                                        !.L = << >>])
    /\ UNCHANGED << geometry, puzzle, heap, pc, sudoku, g, simplified, emitted, result >>

\* Sudoku.solve, lines 164-165, and solve, lines 264-265: no cell is
\* selected, sg is yielded, and solve returns it as text.
Emit ==
    /\ pc = "solve" /\ top.pc = "select"
    /\ find_minimum_set(heap[top.sg]) = None
    /\ is_valid(heap[top.sg])
    /\ emitted' = top.sg
    /\ result' = as_puzzle_string(heap[top.sg])
    /\ pc' = "done"
    /\ UNCHANGED << geometry, puzzle, heap, sudoku, g, simplified, stack >>

\* Sudoku.solve, lines 155-163: the next choice of L is set in sg's grid and
\* sg.solve is entered.
Choose ==
    /\ pc = "solve" /\ top.pc = "branch"
    /\ \E choice \in list_next(top.F[top.row][top.col], top.L) :
          LET h == [heap EXCEPT ![top.sg] =
                      set_choice(heap[top.sg], top.row, top.col, choice)]
          IN  /\ heap' = h
              /\ stack' = Append(WithTop([top EXCEPT !.L = Append(top.L, choice)]),
                                 Frame(top.sg, h))
    /\ sudoku' = top.sg
    /\ UNCHANGED << geometry, puzzle, pc, g, simplified, emitted, result >>

\* Sudoku.solve, lines 155 and 151: L is exhausted, simplify (resumed after
\* its yield) breaks, and the activation ends.
Exhausted ==
    /\ pc = "solve" /\ top.pc = "branch"
    /\ list_next(top.F[top.row][top.col], top.L) = {}
    /\ Return

Next ==
    \/ Propagate
    \/ Advance
    \/ TopFixpoint
    \/ TopContradiction
    \/ Fixpoint
    \/ Contradiction
    \/ Select
    \/ Emit
    \/ Choose
    \/ Exhausted

Spec == Init /\ [][Next]_vars

\* The geometry on its own: a Configuration of size k and a valid coordinate
\* of its grid; no puzzle is being solved.
GeometryInit ==
    /\ configuration \in 1 .. MaxSize
    /\ focus \in (0 .. (configuration * configuration - 1))
                   \X (0 .. (configuration * configuration - 1))
    /\ peers = << >>
    /\ puzzle = << >>
    /\ heap = << >>
    /\ pc = "done"
    /\ sudoku = 0
    /\ g = 0
    /\ simplified = 0
    /\ stack = << >>
    /\ emitted = 0
    /\ result = << >>

\* peers with the coordinates of one more group.
taken(group, coords) ==
    [n \in DOMAIN peers \cup {group} |-> IF n = group THEN coords ELSE peers[n]]

\* Configuration.other_row_coords(row, col), consumed to its end.
OtherRowCoords ==
    /\ focus # << >>
    /\ "row" \notin DOMAIN peers
    /\ peers' = taken("row", Configuration_other_row_coords(configuration, focus[1], focus[2]))
    /\ UNCHANGED << configuration, focus, puzzle, heap, pc, sudoku, g, simplified,
                    stack, emitted, result >>

\* Configuration.other_col_coords(row, col), consumed to its end.
OtherColCoords ==
    /\ focus # << >>
    /\ "col" \notin DOMAIN peers
    /\ peers' = taken("col", Configuration_other_col_coords(configuration, focus[1], focus[2]))
    /\ UNCHANGED << configuration, focus, puzzle, heap, pc, sudoku, g, simplified,
                    stack, emitted, result >>

\* Configuration.other_box_coords(row, col), consumed to its end.
OtherBoxCoords ==
    /\ focus # << >>
    /\ "box" \notin DOMAIN peers
    /\ peers' = taken("box", Configuration_other_box_coords(configuration, focus[1], focus[2]))
    /\ UNCHANGED << configuration, focus, puzzle, heap, pc, sudoku, g, simplified,
                    stack, emitted, result >>

GeometryNext ==
    \/ OtherRowCoords
    \/ OtherColCoords
    \/ OtherBoxCoords

GeometrySpec == GeometryInit /\ [][GeometryNext]_vars

\* Propagate as simplify's control sees it: from line 132, the grid valid,
\* to line 133 with g bound to a new Sudoku.
PropagateBegins ==
    /\ Simplifying
    /\ g = 0
    /\ is_valid(heap[sudoku])
    /\ g' = fresh(heap)

\* The program is sequential and runs on: a step that can be taken is taken.
\* The fairness of Propagate is stated on PropagateBegins, which is enabled
\* when Propagate is and whose steps, in a behaviour of Spec, are Propagate's.
FairSpec ==
    /\ Spec
    /\ WF_g(PropagateBegins)
    /\ WF_vars(Advance \/ TopFixpoint \/ TopContradiction \/ Fixpoint
                  \/ Contradiction \/ Select \/ Emit \/ Choose \/ Exhausted)

----------------------------------------------------------------------------
(* What the claims speak of.                                               *)

Cells == cell_range \X cell_range

\* The cells of row r, of column c, and of the box that holds (r, c).
RowCells(r) == { rc \in Cells : rc[1] = r }
ColCells(c) == { rc \in Cells : rc[2] = c }
BoxCells(r, c) ==
    { rc \in Cells : rc[1] \div size = r \div size /\ rc[2] \div size = c \div size }

\* The groups of the grid: its rows, its columns and its boxes.
Groups ==
    { RowCells(r) : r \in cell_range } \cup { ColCells(c) : c \in cell_range }
        \cup { BoxCells(rc[1], rc[2]) : rc \in Cells }

\* Grid gr is a complete valid solution: every cell holds one value and
\* every row, column and box holds every value of 1..N (hence exactly once).
IsSolution(gr) ==
    /\ \A rc \in Cells : Cardinality(gr[rc[1]][rc[2]]) = 1
    /\ \A G \in Groups : UNION { gr[rc[1]][rc[2]] : rc \in G } = Values

\* The permutations of 1..N, as rows.
Rows == { p \in [cell_range -> Values] : \A i, j \in cell_range : p[i] = p[j] => i = j }

\* Row r may follow the rows of p: no value twice in a column or in a box.
Fits(p, r) ==
    \A i \in 1 .. Len(p) : \A c, d \in cell_range :
        (c = d \/ ((i - 1) \div size = Len(p) \div size /\ c \div size = d \div size))
            => p[i][c] # r[d]

RECURSIVE Partial(_)
\* The valid fillings of the first n rows, as sequences of rows.
Partial(n) ==
    IF n = 0 THEN { << >> }
    ELSE UNION { { Append(p, r) : r \in { q \in Rows : Fits(p, q) } } : p \in Partial(n - 1) }

\* Every complete valid grid: Solutions[k][r + 1][c] is the value of cell (r, c).
Solutions == Partial(cell_count)

\* The complete valid grids that agree with the givens of the puzzle text.
Completions ==
    { sol \in Solutions :
        \A rc \in Cells :
            puzzle[rc[1] + 1][rc[2] + 1] # "_"
                => alphabet[sol[rc[1] + 1][rc[2]] + 1] = puzzle[rc[1] + 1][rc[2] + 1] }

\* A complete grid as puzzle text: one character per cell, rows joined by newlines.
SolutionText(sol) ==
    [k \in 1 .. (cell_count * (cell_count + 1) - 1) |->
        IF k % (cell_count + 1) = 0 THEN "\n"
        ELSE alphabet[sol[((k - 1) \div (cell_count + 1)) + 1][(k - 1) % (cell_count + 1)] + 1]]

\* Two distinct cells of one row, column or box are given the same digit.
HasDuplicateGivens ==
    \E G \in Groups : \E a, b \in G :
        /\ a # b
        /\ puzzle[a[1] + 1][a[2] + 1] # "_"
        /\ puzzle[a[1] + 1][a[2] + 1] = puzzle[b[1] + 1][b[2] + 1]

\* Some cell of grid gr has no candidate.
HasEmptyCell(gr) == \E rc \in Cells : gr[rc[1]][rc[2]] = {}

\* The activations that have selected a cell.
Branching == { i \in DOMAIN stack : stack[i].pc = "branch" }

----------------------------------------------------------------------------
(* C1: every grid the search emits to solve is a complete valid solution:  *)
(* each cell holds exactly one value and every row, column and box holds   *)
(* each value of 1..N exactly once.                                        *)
C1_EmittedIsSolution == emitted # 0 => IsSolution(heap[emitted])

C4_Fidelity ==
    /\ \A id \in DOMAIN heap : \A rc \in Cells :
          IF puzzle[rc[1] + 1][rc[2] + 1] = "_"
          THEN heap[id][rc[1]][rc[2]] \subseteq Values
          ELSE \A x \in heap[id][rc[1]][rc[2]] :
                  alphabet[x + 1] = puzzle[rc[1] + 1][rc[2] + 1]
    /\ emitted # 0 =>
          \A rc \in Cells :
             puzzle[rc[1] + 1][rc[2] + 1] # "_" =>
                /\ Cardinality(heap[emitted][rc[1]][rc[2]]) = 1
                /\ result[rc[1] * (cell_count + 1) + rc[2] + 1] = puzzle[rc[1] + 1][rc[2] + 1]

\* C4's case: a grid is emitted, after branching, for a puzzle with a given.
C4_Witness ==
    /\ emitted # 0
    /\ Len(stack) >= 2
    /\ \E rc \in Cells : puzzle[rc[1] + 1][rc[2] + 1] # "_"

(* C5: no step changes the grid of a Sudoku on which solve is running (an  *)
(* activation's self), nor the Puzzle's grid: a grid that changes is a new *)
(* one.                                                                    *)
C5_ReceiverUnchanged ==
    [][ /\ heap'[1] = heap[1]
        /\ \A i \in DOMAIN stack \cap DOMAIN stack' :
              stack'[i].self = stack[i].self
                 => heap'[stack[i].self] = heap[stack[i].self] ]_vars

\* The cells of gr with two candidates or more.
Undetermined(gr) == { rc \in Cells : Cardinality(gr[rc[1]][rc[2]]) >= 2 }

\* The cell find_minimum_set is to return for gr: of the undetermined cells
\* with the fewest candidates, the first in row-major order.
MinimumCell(gr) ==
    CHOOSE rc \in Undetermined(gr) :
        \A o \in Undetermined(gr) :
            \/ Cardinality(gr[rc[1]][rc[2]]) < Cardinality(gr[o[1]][o[2]])
            \/ /\ Cardinality(gr[rc[1]][rc[2]]) = Cardinality(gr[o[1]][o[2]])
               /\ rc[1] * cell_count + rc[2] <= o[1] * cell_count + o[2]

(* C6: on the grid it is called on, find_minimum_set returns None exactly  *)
(* when no cell has two candidates or more, and otherwise the first cell   *)
(* in row-major order among those of the smallest size >= 2.               *)
C6_FindMinimumSet ==
    (pc = "solve" /\ top.pc = "select")
        => IF Undetermined(heap[top.sg]) = {}
           THEN find_minimum_set(heap[top.sg]) = None
           ELSE find_minimum_set(heap[top.sg]) = MinimumCell(heap[top.sg])

(* C7: branch isolation.  While an activation explores the candidates of   *)
(* its selected cell (r, c) of the fixpoint grid F, the grid the recursive *)
(* solve for value v works from is F with (r, c) collapsed to {v}, for     *)
(* every v, whatever was explored before.                                  *)
C7_BranchIsolation ==
    \A i \in Branching :
        /\ heap[stack[i].sg] =
              IF stack[i].L = << >> THEN stack[i].F
              ELSE [stack[i].F EXCEPT ![stack[i].row][stack[i].col] =
                                         {stack[i].L[Len(stack[i].L)]}]
        /\ i < Len(stack) => stack[i + 1].self = stack[i].sg

\* C7's case: the sub-search for a second value of the selected cell runs,
\* after the sub-search for the first one has ended.
C7_Witness ==
    \E i \in Branching : Len(stack[i].L) >= 2 /\ i < Len(stack)

\* The values that are the sole candidate of a peer of (row, col) in gr.
PeerSingles(gr, row, col) ==
    { x \in Values :
        \E rc \in (RowCells(row) \cup ColCells(col) \cup BoxCells(row, col)) \ {<<row, col>>} :
            gr[rc[1]][rc[2]] = {x} }

\* acc, the accumulated forced value of a cell after its three peer groups
\* (row, column, box), is a set of one value.
IsForced(acc) == ~acc.is_none /\ Cardinality(acc.forced) = 1

(* C8 as written: when the accumulated forced value of a cell with         *)
(* candidates V is the one value x, calculate_options returns V \cap {x},  *)
(* with no elimination of peers' sole candidates after that.               *)
C8_ForcedReturnedAsIs ==
    g # 0 =>
        \A rc \in Cells :
            LET V == heap[sudoku][rc[1]][rc[2]]
                acc == forcing_after(V, value_groups(heap[sudoku], rc[1], rc[2]), 3)
            IN  IsForced(acc) => heap[g][rc[1]][rc[2]] = V \cap acc.forced

(* C8 amended: when the accumulated forced value of a cell with candidates *)
(* V is the one value x, calculate_options returns V \cap {x} less every   *)
(* value that is the sole candidate of a peer: the elimination of peers'   *)
(* sole candidates is applied after the intersection too.                  *)
C8_ForcedThenEliminated ==
    g # 0 =>
        \A rc \in Cells :
            LET V == heap[sudoku][rc[1]][rc[2]]
                acc == forcing_after(V, value_groups(heap[sudoku], rc[1], rc[2]), 3)
            IN  IsForced(acc) =>
                    heap[g][rc[1]][rc[2]] =
                        (V \cap acc.forced) \ PeerSingles(heap[sudoku], rc[1], rc[2])

\* C8's case: a cell whose forced value is the sole candidate of a peer has
\* been recomputed, to the empty set.
C8_Witness ==
    /\ g # 0
    /\ \E rc \in Cells :
          LET V == heap[sudoku][rc[1]][rc[2]]
              acc == forcing_after(V, value_groups(heap[sudoku], rc[1], rc[2]), 3)
          IN  /\ IsForced(acc)
              /\ acc.forced \subseteq V
              /\ acc.forced \subseteq PeerSingles(heap[sudoku], rc[1], rc[2])
              /\ heap[g][rc[1]][rc[2]] = {}

(* C9 as written: a group in which more than one candidate of the cell is  *)
(* absent from every peer leaves the accumulated forced value unchanged.   *)
C9_AmbiguousGroupIgnored ==
    g # 0 =>
        \A rc \in Cells :
            LET V == heap[sudoku][rc[1]][rc[2]]
                groups == value_groups(heap[sudoku], rc[1], rc[2])
            IN  \A n \in 1 .. 3 :
                    Cardinality(V \ UNION groups[n]) > 1
                        => forcing_after(V, groups, n) = forcing_after(V, groups, n - 1)

(* C9 amended: a group with no forced choice leaves the accumulated forced *)
(* value unchanged; a group with one forced choice sets it when none is    *)
(* recorded, keeps it when it is the same, and resets it to the empty set  *)
(* when it differs; a group with more than one forced choice resets it to  *)
(* the empty set too, and the cell's new candidate set is then empty.      *)
C9_AmbiguousGroupResets ==
    g # 0 =>
        \A rc \in Cells :
            LET V == heap[sudoku][rc[1]][rc[2]]
                groups == value_groups(heap[sudoku], rc[1], rc[2])
            IN  \A n \in 1 .. 3 :
                    LET fc == V \ UNION groups[n]
                        before == forcing_after(V, groups, n - 1)
                        after == forcing_after(V, groups, n)
                    IN  /\ fc = {} => after = before
                        /\ Cardinality(fc) = 1 =>
                              after = IF before.is_none
                                      THEN [is_none |-> FALSE, forced |-> fc]
                                      ELSE IF before.forced = fc THEN before
                                      ELSE [is_none |-> FALSE, forced |-> {}]
                        /\ Cardinality(fc) > 1 =>
                              /\ after = [is_none |-> FALSE, forced |-> {}]
                              /\ heap[g][rc[1]][rc[2]] = {}

\* C9's case: a cell with candidates has been recomputed, to the empty set,
\* from a grid in which one of its groups has more than one forced choice.
C9_Witness ==
    /\ g # 0
    /\ \E rc \in Cells : \E n \in 1 .. 3 :
          /\ Cardinality(heap[sudoku][rc[1]][rc[2]]
                            \ UNION value_groups(heap[sudoku], rc[1], rc[2])[n]) > 1
          /\ heap[g][rc[1]][rc[2]] = {}

\* The n-th smallest element of the set s of numbers.
Nth(s, n) == CHOOSE x \in s : Cardinality({ y \in s : y < x }) = n - 1

Total(gr) ==
    LET RECURSIVE sum(_)
        sum(n) == IF n = 0 THEN 0
                  ELSE sum(n - 1)
                         + Cardinality(gr[(n - 1) \div cell_count][(n - 1) % cell_count])
    IN  sum(cell_count * cell_count)

\* Between lines 133 and 134 of simplify: g is computed from the grid of
\* sudoku, which is as it was; no cell of g has a candidate that sudoku's
\* cell has not, and g's grid is the same or has fewer candidates in all.
PropagationShrinks ==
    g # 0 =>
        /\ g # sudoku
        /\ \A rc \in Cells :
              /\ heap[g][rc[1]][rc[2]] \subseteq heap[sudoku][rc[1]][rc[2]]
              /\ heap[sudoku][rc[1]][rc[2]] \subseteq Values
        /\ heap[g] = heap[sudoku] \/ Total(heap[g]) < Total(heap[sudoku])

\* A grid that simplify has yielded and nothing has changed yet has no empty
\* cell, and one more propagation step leaves it as it is.
ResultIsFixpoint ==
    (pc = "solve" /\ top.pc = "select") =>
        /\ ~HasEmptyCell(heap[top.sg])
        /\ \A rc \in Cells :
              calculate_options(heap[top.sg], rc[1], rc[2]) = heap[top.sg][rc[1]][rc[2]]

\* simplify ends without a result only on a grid with an empty cell.
NoResultIsContradiction ==
    [][ (Simplifying /\ ~Simplifying' /\ (pc' = "done" \/ Len(stack') < Len(stack)))
           => HasEmptyCell(heap[sudoku]) ]_vars

(* C11: Sudoku.simplify terminates.  Each propagation step computes every  *)
(* cell from the unmodified input grid, enlarges no cell and either leaves *)
(* the grid unchanged or strictly decreases the total candidate count;     *)
(* every run of simplify ends, with one result (a valid grid that one more *)
(* step leaves unchanged) or with none (some cell empty).                  *)
C11_SimplifyTerminates ==
    /\ []PropagationShrinks
    /\ []ResultIsFixpoint
    /\ NoResultIsContradiction
    /\ Simplifying ~> ~Simplifying

\* C11's case: in a sub-search, a propagation step that follows another one
\* has strictly decreased the total candidate count.
C11_Witness ==
    /\ pc = "solve" /\ top.pc = "simplify"
    /\ g # 0
    /\ sudoku # top.self
    /\ Total(heap[g]) < Total(heap[sudoku])
    /\ ~HasEmptyCell(heap[g])

\* The cells of the grid of a Configuration of size k.
CellsOf(k) == (0 .. (k * k - 1)) \X (0 .. (k * k - 1))

\* The coordinates of sequence coords, as a set.
Yielded(coords) == { coords[i] : i \in DOMAIN coords }

\* The cells other than rc that share rc's row, its column, its k-by-k box.
SameRow(k, rc) == { o \in CellsOf(k) : o # rc /\ o[1] = rc[1] }
SameCol(k, rc) == { o \in CellsOf(k) : o # rc /\ o[2] = rc[2] }
SameBox(k, rc) ==
    { o \in CellsOf(k) : o # rc /\ o[1] \div k = rc[1] \div k /\ o[2] \div k = rc[2] \div k }

\* All three peer groups of the focus have been taken.
AllTaken == DOMAIN peers = {"row", "col", "box"}

(* C12 as written: each of the three peer groups excludes (row, col)       *)
(* itself, and every other cell of the grid is in at least one of them.    *)
C12_PeersCoverGrid ==
    AllTaken =>
        /\ \A n \in DOMAIN peers : focus \notin Yielded(peers[n])
        /\ \A o \in CellsOf(configuration) \ {focus} :
              \E n \in DOMAIN peers : o \in Yielded(peers[n])

(* C12 amended: for every box size k and every valid (row, col), each of   *)
(* the three peer groups excludes (row, col) itself and yields, once each, *)
(* exactly the N - 1 other cells of the row, of the column, of the k-by-k  *)
(* box; a cell is in some group exactly when it shares the row, the column *)
(* or the box, which makes 3*k*k - 2*k - 1 cells, not every other cell.    *)
C12_PeersAreRowColBox ==
    /\ \A n \in DOMAIN peers :
          /\ focus \notin Yielded(peers[n])
          /\ Len(peers[n]) = configuration * configuration - 1
          /\ Cardinality(Yielded(peers[n])) = Len(peers[n])
    /\ "row" \in DOMAIN peers => Yielded(peers["row"]) = SameRow(configuration, focus)
    /\ "col" \in DOMAIN peers => Yielded(peers["col"]) = SameCol(configuration, focus)
    /\ "box" \in DOMAIN peers => Yielded(peers["box"]) = SameBox(configuration, focus)
    /\ AllTaken =>
          Cardinality(UNION { Yielded(peers[n]) : n \in DOMAIN peers })
              = 3 * configuration * configuration - 2 * configuration - 1

\* C12's case: the three groups of a cell are taken and a cell of the grid
\* is in none of them.
C12_Witness ==
    /\ AllTaken
    /\ configuration >= 2
    /\ \E o \in CellsOf(configuration) \ {focus} :
          \A n \in DOMAIN peers : o \notin Yielded(peers[n])

====
